---------------------------- MODULE Spec2Model ----------------------------
(***************************************************************************)
(* Model of the function-app import of vscode-apimanagement:               *)
(*   src/src/azureFunctions/Utils.ts            (identifier normalizer,    *)
(*                                               route-template parser)    *)
(*   src/src/azureFunctions/FunctionAppAsAPI.ts (operation synthesis and   *)
(*                                               the import orchestrator)  *)
(*                                                                         *)
(* A JavaScript string is a sequence of characters; a character is a       *)
(* one-character TLA+ string, or "U+XXXX" for a character outside ASCII.   *)
(* An optional value (T | undefined) is a sequence of length at most one:  *)
(* << >> is undefined, <<v>> is the value v.                               *)
(***************************************************************************)
EXTENDS Integers, Sequences, FiniteSets, TLC

VARIABLES
    fn,        \* the pure function under application
    arg,       \* its argument
    ret,       \* its result, once pc = "return"
    pc,        \* "call" before the application, "return" after it
    runs,      \* the importFunctionApp runs: run id -> the run's locals
    hostKeys,  \* the host keys of the function app, [name, value] each
    gateway,   \* what the gateway holds: properties, backends, operations,
               \* policies, in the order written
    calls      \* for each run, the collaborator calls it issued, in order

pureVars == <<fn, arg, ret, pc>>
importVars == <<runs, hostKeys, gateway, calls>>
vars == <<fn, arg, ret, pc, runs, hostKeys, gateway, calls>>

(***************************************************************************)
(* Bounds of the model.                                                    *)
(***************************************************************************)
MaxTemplatePieces == 4
MaxRawPieces == 4
MaxNamePieces == 3
MaxTriggers == 2
MaxFunctions == 2
MaxListCalls == 3

(***************************************************************************)
(* JavaScript string primitives.                                           *)
(***************************************************************************)
Undefined == << >>
Some(v) == <<v>>

Min(a, b) == IF a < b THEN a ELSE b
Max(a, b) == IF a > b THEN a ELSE b

\* String.prototype.substring(start, end): 0-based, end exclusive, the
\* arguments clamped to [0, length] and swapped when start > end.
Substring(s, start, end) ==
    LET a == Min(Max(start, 0), Len(s))
        b == Min(Max(end, 0), Len(s))
    IN  SubSeq(s, Min(a, b) + 1, Max(a, b))

\* String.prototype.substr(start, length) for start >= 0.
Substr(s, start, length) ==
    SubSeq(s, Min(start, Len(s)) + 1, Min(start + Max(length, 0), Len(s)))

\* String.prototype.substr(start) for start >= 0.
SubstrFrom(s, start) == SubSeq(s, Min(start, Len(s)) + 1, Len(s))

StartsWith(s, p) == Len(s) >= Len(p) /\ SubSeq(s, 1, Len(p)) = p

EndsWith(s, p) ==
    Len(s) >= Len(p) /\ SubSeq(s, Len(s) - Len(p) + 1, Len(s)) = p

\* String.prototype.indexOf for a single character: 0-based, -1 when absent.
IndexOf(s, c) ==
    IF \E i \in 1..Len(s) : s[i] = c
    THEN (CHOOSE i \in 1..Len(s) :
              s[i] = c /\ \A j \in 1..(i - 1) : s[j] # c) - 1
    ELSE -1

\* String.prototype.split(separator), the separator a single character or a
\* character class: the pieces between the separators, all of them.
RECURSIVE SplitFrom(_, _, _)
SplitFrom(s, seps, from) ==
    LET rest == {i \in from..Len(s) : s[i] \in seps}
    IN  IF rest = {}
        THEN <<SubSeq(s, from, Len(s))>>
        ELSE LET i == CHOOSE k \in rest : \A j \in rest : k <= j
             IN  <<SubSeq(s, from, i - 1)>> \o SplitFrom(s, seps, i + 1)

\* String.prototype.split(separator, limit): the first `limit` pieces.
Split(s, seps, limit) ==
    LET all == SplitFrom(s, seps, 1)
    IN  SubSeq(all, 1, Min(limit, Len(all)))

RECURSIVE Concat(_)
Concat(ps) == IF ps = << >> THEN << >> ELSE Head(ps) \o Concat(Tail(ps))

SeqsUpTo(S, n) == UNION {[1..k -> S] : k \in 0..n}

(***************************************************************************)
(* Identifier normalizer: Utils.displayNameToIdentifier, removeAccents.    *)
(***************************************************************************)
upperCase ==
  <<
    "A", "B", "C", "D", "E", "F", "G", "H", "I", "J", "K", "L", "M", "N",
    "O", "P", "Q", "R", "S", "T", "U", "V", "W", "X", "Y", "Z", "U+00C0",
    "U+00C1", "U+00C2", "U+00C3", "U+00C4", "U+00C5", "U+00D2", "U+00D3",
    "U+00D4", "U+00D5", "U+00D6", "U+00D8", "U+010E", "U+017D", "U+00C8",
    "U+00C9", "U+00CA", "U+00CB", "U+00C7", "U+010C", "U+00D0", "U+00CC",
    "U+00CD", "U+00CE", "U+00CF", "U+00D9", "U+00DA", "U+00DB", "U+00DC",
    "U+013D", "U+0139", "U+00D1", "U+0147", "U+0154", "U+0160", "U+0164",
    "U+0178", "U+00DD"
  >>

lowerCase ==
  <<
    "a", "b", "c", "d", "e", "f", "g", "h", "i", "j", "k", "l", "m", "n",
    "o", "p", "q", "r", "s", "t", "u", "v", "w", "x", "y", "z", "U+00E0",
    "U+00E1", "U+00E2", "U+00E3", "U+00E4", "U+00E5", "U+00F2", "U+00F3",
    "U+00F4", "U+00F5", "U+00F6", "U+00F8", "U+010F", "U+017E", "U+00E8",
    "U+00E9", "U+00EA", "U+00EB", "U+00E7", "U+010D", "U+00F0", "U+00EC",
    "U+00ED", "U+00EE", "U+00EF", "U+00F9", "U+00FA", "U+00FB", "U+00FC",
    "U+013E", "U+013A", "U+00F1", "U+0148", "U+0155", "U+0161", "U+0165",
    "U+00FF", "U+00FD"
  >>

AsciiUpper == {upperCase[i] : i \in 1..26}
AsciiLower == {lowerCase[i] : i \in 1..26}
Digits == {"0", "1", "2", "3", "4", "5", "6", "7", "8", "9"}
WhiteSpace == {" ", "\t", "\n", "\r"}

\* String.prototype.toLowerCase, one character.
ToLowerChar(c) ==
    LET i == IndexOf(upperCase, c) IN IF i = -1 THEN c ELSE lowerCase[i + 1]

ToLowerCase(s) == [i \in 1..Len(s) |-> ToLowerChar(s[i])]

\* new RegExp("[^A-Za-z0-9]", "ig"): the characters the class matches.  The
\* i flag never folds a character above U+007F onto an ASCII letter.
IsInvalidIdChar(c) == c \notin (AsciiUpper \cup AsciiLower \cup Digits)

\* value.replace(invalidIdCharsRegExp, "-")
ReplaceInvalidIdChars(s) ==
    [i \in 1..Len(s) |-> IF IsInvalidIdChar(s[i]) THEN "-" ELSE s[i]]

\* String.prototype.trim
Trim(s) ==
    LET keep == {i \in 1..Len(s) : s[i] \notin WhiteSpace}
    IN  IF keep = {} THEN << >>
        ELSE SubSeq(s, CHOOSE i \in keep : \A j \in keep : i <= j,
                       CHOOSE i \in keep : \A j \in keep : i >= j)

IsRunStart(p) == ~(p[1] = "-" /\ p[2] = "-")

\* .replace(/-+/g, "-"): of each run of dashes the first one is kept.
CollapseDashes(s) ==
    LET paired == [i \in 1..Len(s) |->
                      <<s[i], IF i = 1 THEN "" ELSE s[i - 1]>>]
        kept == SelectSeq(paired, IsRunStart)
    IN  [i \in 1..Len(kept) |-> kept[i][1]]

IdentifierMaxLength == 80

\* A variant of Truncate that cuts one character too late.
Truncate_OffByOne(s) == Substr(s, 0, IdentifierMaxLength + 1)

\* .substr(0, 80)
Truncate(s) == Substr(s, 0, IdentifierMaxLength)

\* .replace(/(^-)|(-$)/g, ""): one dash at the start and one at the end.
StripEdgeDashes(s) ==
    LET a == IF Len(s) > 0 /\ s[1] = "-" THEN Tail(s) ELSE s
    IN  IF Len(a) > 0 /\ a[Len(a)] = "-" THEN SubSeq(a, 1, Len(a) - 1) ELSE a

accents ==
  <<
    "U+00C0", "U+00C1", "U+00C2", "U+00C3", "U+00C4", "U+00C5", "U+00E0",
    "U+00E1", "U+00E2", "U+00E3", "U+00E4", "U+00E5", "U+00DF", "U+00D2",
    "U+00D3", "U+00D4", "U+00D5", "U+00D5", "U+00D6", "U+00D8", "U+00F2",
    "U+00F3", "U+00F4", "U+00F5", "U+00F6", "U+00F8", "U+010E", "U+010F",
    "D", "U+017D", "d", "U+017E", "U+00C8", "U+00C9", "U+00CA", "U+00CB",
    "U+00E8", "U+00E9", "U+00EA", "U+00EB", "U+00F0", "U+00C7", "U+00E7",
    "U+010C", "U+010D", "U+00D0", "U+00CC", "U+00CD", "U+00CE", "U+00CF",
    "U+00EC", "U+00ED", "U+00EE", "U+00EF", "U+00D9", "U+00DA", "U+00DB",
    "U+00DC", "U+00F9", "U+00FA", "U+00FB", "U+00FC", "U+013D", "U+0139",
    "U+013E", "U+013A", "U+00D1", "U+0147", "U+0148", "U+00F1", "U+0154",
    "U+0155", "U+0160", "U+0161", "U+0164", "U+0165", "U+0178", "U+00DD",
    "U+00FF", "U+00FD", "U+017D", "U+017E"
  >>

accentsOut ==
  <<
    "A", "A", "A", "A", "A", "A", "a", "a", "a", "a", "a", "a", "s", "O",
    "O", "O", "O", "O", "O", "O", "o", "o", "o", "o", "o", "o", "D", "d",
    "D", "Z", "d", "z", "E", "E", "E", "E", "e", "e", "e", "e", "e", "C",
    "c", "C", "c", "D", "I", "I", "I", "I", "i", "i", "i", "i", "U", "U",
    "U", "U", "u", "u", "u", "u", "L", "L", "l", "l", "N", "N", "n", "n",
    "R", "r", "S", "s", "T", "t", "Y", "Y", "y", "y", "Z", "z"
  >>

\* The body of removeAccents' forEach for one letter.
FoldAccent(letter) ==
    LET i == IndexOf(accents, letter)
    IN  IF i # -1 THEN accentsOut[i + 1] ELSE letter

\* removeAccents(str): str.split("") of undefined throws a TypeError.
\* The result is [threw, value].
removeAccents(str) ==
    IF str = Undefined
    THEN [threw |-> TRUE, value |-> << >>]
    ELSE [threw |-> FALSE,
          value |-> [i \in 1..Len(str[1]) |-> FoldAccent(str[1][i])]]

\* The chain of line 25 on a string value.
IdentifierChain(s) ==
    ToLowerCase(StripEdgeDashes(Truncate(CollapseDashes(
        Trim(ReplaceInvalidIdChars(s))))))

\* displayNameToIdentifier(value), value a string or undefined:
\* `value && chain(value)` is value itself when value is falsy (undefined
\* or ""), and the chain's result otherwise.
displayNameToIdentifier(value) ==
    LET identifier ==
            IF value = Undefined THEN Undefined
            ELSE IF value[1] = << >> THEN Some(<< >>)
            ELSE Some(IdentifierChain(value[1]))
    IN  removeAccents(identifier)

(***************************************************************************)
(* Route-template parser: Utils.parseUrlTemplate, _parseParameter,         *)
(* _mapParameterType (FunctionAppAsAPI.ts holds the same three, verbatim). *)
(***************************************************************************)
ExactStringTypes ==
    { <<"a", "l", "p", "h", "a">>,
      <<"d", "a", "t", "e", "t", "i", "m", "e">>,
      <<"g", "u", "i", "d">> }

ExactNumberTypes ==
    { <<"d", "e", "c", "i", "m", "a", "l">>,
      <<"f", "l", "o", "a", "t">>,
      <<"d", "o", "u", "b", "l", "e">> }

ExactIntegerTypes == { <<"i", "n", "t">>, <<"l", "o", "n", "g">> }

ExactBooleanTypes == { <<"b", "o", "o", "l">> }

StringPrefixes ==
    { <<"l", "e", "n", "g", "t", "h", "(">>,
      <<"m", "a", "x", "l", "e", "n", "g", "t", "h", "(">>,
      <<"m", "i", "n", "l", "e", "n", "g", "t", "h", "(">>,
      <<"r", "e", "g", "e", "x", "(">> }

IntegerPrefixes ==
    { <<"m", "i", "n", "(">>,
      <<"m", "a", "x", "(">>,
      <<"r", "a", "n", "g", "e", "(">> }

\* _mapParameterType(type): the switch, then the two startsWith tests.
\* The result is an OpenAPI type name, "" when the constraint is unknown.
mapParameterType(type) ==
    IF type \in ExactStringTypes THEN "string"
    ELSE IF type \in ExactNumberTypes THEN "number"
    ELSE IF type \in ExactIntegerTypes THEN "integer"
    ELSE IF type \in ExactBooleanTypes THEN "boolean"
    ELSE IF \E p \in StringPrefixes : StartsWith(type, p) THEN "string"
    ELSE IF \E p \in IntegerPrefixes : StartsWith(type, p) THEN "integer"
    ELSE ""

NameAndTypeSeparators == {":", "=", "?"}
SplitLimit == 3

\* param.split(/:|=|\?/, 3)
NameAndType(param) == Split(param, NameAndTypeSeparators, SplitLimit)

\* param.split("=", 3)
DefaultValueParts(param) == Split(param, {"="}, SplitLimit)

\* The name of lines 86: one leading "*" dropped.
ParameterName(first) ==
    IF StartsWith(first, <<"*">>) THEN SubstrFrom(first, 1) ELSE first

\* A variant of ParameterDefault that keeps the trailing "?".
ParameterDefault_KeepsQuestionMark(defaultValue) ==
    IF Len(defaultValue) > 1 THEN Some(defaultValue[2]) ELSE Undefined

\* The default value of lines 91-93: absent, or the second piece of the
\* split on "=", one trailing "?" dropped.
ParameterDefault(defaultValue) ==
    IF Len(defaultValue) > 1
    THEN Some(IF EndsWith(defaultValue[2], <<"?">>)
              THEN Substr(defaultValue[2], 0, Len(defaultValue[2]) - 1)
              ELSE defaultValue[2])
    ELSE Undefined

\* _parseParameter(param).  nameAndType[0].startsWith throws a TypeError if
\* the split yields no piece.  The result is [threw, value].
parseParameter(param) ==
    LET nameAndType == NameAndType(param)
        defaultValue == DefaultValueParts(param)
    IN  IF Len(nameAndType) = 0
        THEN [threw |-> TRUE, value |-> << >>]
        ELSE [threw |-> FALSE,
              value |->
                <<[name |-> ParameterName(nameAndType[1]),
                   type |-> IF Len(nameAndType) > 1
                            THEN mapParameterType(nameAndType[2])
                            ELSE "",
                   required |-> ~EndsWith(param, <<"?">>),
                   defaultValue |-> ParameterDefault(defaultValue)]>>]

\* The locals of parseUrlTemplate before the loop.  `spans` is a history
\* variable: for each parameter pushed, <<parameterStart, i>> at that time.
ParseInit ==
    [cleanTemplate |-> << >>, parameters |-> << >>, templateStart |-> 0,
     parameterStart |-> 0, parameterDepth |-> 0, threw |-> FALSE,
     spans |-> << >>]

\* Lines 41-47: the branch of uriTemplate[i] === "{".
OnOpenBrace(st, t, i) ==
    [st EXCEPT
        !.parameterStart = IF st.parameterDepth = 0 THEN i + 1 ELSE @,
        !.parameterDepth = @ + 1,
        !.cleanTemplate = @ \o Substring(t, st.templateStart, i),
        !.templateStart = i]

\* A variant of OnCloseToZero that writes the raw parameter text, not the
\* name, into the clean template.
OnCloseToZero_EmitsRawText(st, t, i) ==
    IF st.parameterStart < i
    THEN LET parameter == parseParameter(Substring(t, st.parameterStart, i))
         IN  [st EXCEPT
                 !.cleanTemplate =
                     @ \o <<"{">> \o Substring(t, st.parameterStart, i)
                       \o <<"}">>,
                 !.parameters = Append(@, parameter.value[1]),
                 !.spans = Append(@, <<st.parameterStart, i>>),
                 !.templateStart = i + 1]
    ELSE [st EXCEPT !.templateStart = i + 1]

\* Lines 49-54: the body run when "}" brings the depth to 0.
OnCloseToZero(st, t, i) ==
    IF st.parameterStart < i
    THEN LET parameter == parseParameter(Substring(t, st.parameterStart, i))
         IN  IF parameter.threw
             THEN [st EXCEPT !.threw = TRUE]
             ELSE [st EXCEPT
                     !.cleanTemplate =
                         @ \o <<"{">> \o parameter.value[1].name \o <<"}">>,
                     !.parameters = Append(@, parameter.value[1]),
                     !.spans = Append(@, <<st.parameterStart, i>>),
                     !.templateStart = i + 1]
    ELSE [st EXCEPT !.templateStart = i + 1]

\* One iteration of the loop of lines 40-56, i the 0-based index.
\* `--parameterDepth` decrements at every "}", whatever the outcome.
ParseStep(st, t, i) ==
    IF st.threw THEN st
    ELSE IF t[i + 1] = "{" THEN OnOpenBrace(st, t, i)
    ELSE IF t[i + 1] = "}"
    THEN LET dec == [st EXCEPT !.parameterDepth = @ - 1]
         IN  IF dec.parameterDepth = 0 THEN OnCloseToZero(dec, t, i) ELSE dec
    ELSE st

RECURSIVE ParseLoop(_, _, _)
ParseLoop(st, t, i) ==
    IF i >= Len(t) THEN st ELSE ParseLoop(ParseStep(st, t, i), t, i + 1)

\* A variant of FinalFlush that forgets the text after the last flush point.
FinalFlush_DropsTail(st, t) == st.cleanTemplate

\* Line 58: the text after the last flush point.
FinalFlush(st, t) == st.cleanTemplate \o SubstrFrom(t, st.templateStart)

\* parseUrlTemplate(uriTemplate).
parseUrlTemplate(uriTemplate) ==
    LET st == ParseLoop(ParseInit, uriTemplate, 0)
    IN  [threw |-> st.threw,
         urlTemplate |-> FinalFlush(st, uriTemplate),
         parameters |-> st.parameters,
         spans |-> st.spans]

(***************************************************************************)
(* Operation synthesis: the loop of FunctionAppAsAPI.importFunctionApp     *)
(* (lines 158-186) and getNewOperation.                                    *)
(*                                                                         *)
(* A function envelope is [name, href, bindings]: href an optional string, *)
(* bindings (config.bindings) a sequence of [direction, route, methods],   *)
(* each of the three optional.                                             *)
(***************************************************************************)
Str_operations == <<"/", "o", "p", "e", "r", "a", "t", "i", "o", "n", "s", "/">>
Str_POST == <<"P", "O", "S", "T">>
Str_in == <<"i", "n">>

\* A variant of getNewOperation that takes the display name for the name.
getNewOperation_NameFromDisplayName(apiId, method, operationId, displayName) ==
    [id |-> apiId \o Str_operations \o displayName,
     name |-> displayName,
     displayName |-> IF displayName # << >> THEN displayName ELSE operationId,
     method |-> method,
     description |-> << >>,
     urlTemplate |-> <<"*">>,
     templateParameters |-> << >>]

\* getNewOperation(apiId, method, operationId, displayName), both callers
\* passing operationId and displayName as strings.
getNewOperation(apiId, method, operationId, displayName) ==
    [id |-> apiId \o Str_operations \o operationId,
     name |-> operationId,
     displayName |-> IF displayName # << >> THEN displayName ELSE operationId,
     method |-> method,
     description |-> << >>,
     urlTemplate |-> <<"*">>,
     templateParameters |-> << >>]

\* b => !b.direction || b.direction === "in"
IsInbound(b) ==
    b.direction = Undefined \/ b.direction[1] = << >> \/ b.direction[1] = Str_in

\* triggerConfig.config.bindings.find(...): the first inbound binding, if any.
FindInboundBinding(bindings) ==
    LET hits == {i \in 1..Len(bindings) : IsInbound(bindings[i])}
    IN  IF hits = {} THEN Undefined
        ELSE Some(bindings[CHOOSE i \in hits : \A j \in hits : i <= j])

\* functions.find(f => f.name === trigger): the first function of that name.
FindFunction(functions, trigger) ==
    LET hits == {i \in 1..Len(functions) : functions[i].name = trigger}
    IN  IF hits = {} THEN Undefined
        ELSE Some(functions[CHOOSE i \in hits : \A j \in hits : i <= j])

\* `/${binding.route || trigger}`: an undefined or empty route is falsy.
RouteOf(binding, trigger) ==
    <<"/">> \o (IF binding.route # Undefined /\ binding.route[1] # << >>
                THEN binding.route[1] ELSE trigger)

\* Lines 172-175 and 179-182: the new operation, the parsed route set on it.
SetRoute(apiId, method, operationId, trigger, cleanUrl) ==
    [threw |-> operationId.threw \/ cleanUrl.threw,
     value |->
        [getNewOperation(apiId, method, operationId.value, trigger)
            EXCEPT !.urlTemplate = cleanUrl.urlTemplate,
                   !.templateParameters = cleanUrl.parameters]]

\* Lines 171-175 and 178-182: a new operation with the parsed route.
MakeOperation(apiId, method, identifierText, trigger, route) ==
    SetRoute(apiId, method, displayNameToIdentifier(Some(identifierText)),
             trigger, parseUrlTemplate(route))

\* operations.push in source order; a throw leaves the loop.
Pushed(made) ==
    [threw |-> \E j \in 1..Len(made) : made[j].threw,
     value |-> [j \in 1..Len(made) |-> made[j].value]]

\* Lines 168-183: one operation per method, or one POST operation.
OperationsOfBinding(apiId, trigger, binding, route) ==
    Pushed(IF binding.methods # Undefined /\ Len(binding.methods[1]) > 0
           THEN [j \in 1..Len(binding.methods[1]) |->
                   MakeOperation(apiId, binding.methods[1][j],
                       binding.methods[1][j] \o <<"-">> \o trigger,
                       trigger, route)]
           ELSE <<MakeOperation(apiId, Str_POST, trigger, trigger, route)>>)

\* The operations of one matched trigger, lines 165-183.  Reading
\* binding.route of an undefined binding throws a TypeError.
OperationsOfTrigger(apiId, trigger, triggerConfig) ==
    LET found == FindInboundBinding(triggerConfig.bindings)
    IN  IF found = Undefined
        THEN [threw |-> TRUE, value |-> << >>]
        ELSE OperationsOfBinding(apiId, trigger, found[1],
                                 RouteOf(found[1], trigger))

\* The locals of the loop of lines 158-186.
SynthInit ==
    [threw |-> FALSE, operations |-> << >>, functionConfigUrl |-> Undefined]

\* Lines 162-163 and 165-183 for a matched trigger.
MatchedTrigger(st, href, ops) ==
    [threw |-> ops.threw,
     operations |-> st.operations \o ops.value,
     functionConfigUrl |->
        IF st.functionConfigUrl # Undefined /\ st.functionConfigUrl[1] # << >>
        THEN st.functionConfigUrl
        ELSE href]

\* One iteration, for funcAppTriggers[i]: lines 159-185.
\* `functionConfigUrl || triggerConfig.href` keeps the first truthy href.
SynthStep(st, apiId, trigger, functions) ==
    LET found == FindFunction(functions, trigger)
    IN  IF st.threw \/ found = Undefined THEN st
        ELSE MatchedTrigger(st, found[1].href,
                            OperationsOfTrigger(apiId, trigger, found[1]))

RECURSIVE SynthLoop(_, _, _, _, _)
SynthLoop(st, apiId, funcAppTriggers, functions, i) ==
    IF i > Len(funcAppTriggers) THEN st
    ELSE SynthLoop(SynthStep(st, apiId, funcAppTriggers[i], functions),
                   apiId, funcAppTriggers, functions, i + 1)

\* Lines 154-186 as a whole: [threw, operations, functionConfigUrl].
Synthesize(apiId, funcAppTriggers, functions) ==
    SynthLoop(SynthInit, apiId, funcAppTriggers, functions, 1)

(***************************************************************************)
(* Inputs of the pure functions: every concatenation of a few pieces.      *)
(***************************************************************************)
TemplatePieces ==
    { <<"/">>, <<"{">>, <<"}">>, <<"a">>, <<"*">>, <<"?">>, <<"=">>,
      <<":", "i", "n", "t">> }

Templates == {Concat(ps) : ps \in SeqsUpTo(TemplatePieces, MaxTemplatePieces)}

RawPieces ==
    { <<"a">>, <<"*">>, <<":">>, <<"=">>, <<"?">>, <<"i", "n", "t">>,
      <<"I", "n", "t">>, <<"m", "i", "n", "(">>, <<"=", "5">>,
      <<":", "b", "o", "o", "l">> }

RawParameters == {Concat(ps) : ps \in SeqsUpTo(RawPieces, MaxRawPieces)}

LongRun == [i \in 1..(IdentifierMaxLength - 1) |-> "x"]

NamePieces ==
    { <<"a">>, <<"B">>, <<"7">>, <<"-">>, <<" ">>, <<"U+00E9">>,
      <<"U+00DC">>, LongRun }

Names == {Concat(ps) : ps \in SeqsUpTo(NamePieces, MaxNamePieces)}

Str_GET == <<"G", "E", "T">>
Str_post == <<"p", "o", "s", "t">>
Str_out == <<"o", "u", "t">>

TriggerNames ==
    { <<"f">>, <<"g", " ", "h">>, <<"g", "-", "h">>, <<"k">>, <<"z">>, << >> }

Href(name) ==
    <<"u", "/", "f", "u", "n", "c", "t", "i", "o", "n", "s", "/">> \o name

OutBinding ==
    [direction |-> Some(Str_out), route |-> Undefined, methods |-> Undefined]

Fn_f ==
    [name |-> <<"f">>, href |-> Some(Href(<<"f">>)),
     bindings |->
        << OutBinding,
           [direction |-> Undefined,
            route |-> Some(<<"x", "/", "{", "a", ":", "i", "n", "t", "}">>),
            methods |-> Some(<<Str_GET, Str_post>>)] >>]

Fn_gh ==
    [name |-> <<"g", " ", "h">>, href |-> Some(<<"u">>),
     bindings |->
        << [direction |-> Some(Str_in), route |-> Undefined,
            methods |-> Undefined] >>]

Fn_f2 ==
    [name |-> <<"f">>, href |-> Some(<< >>),
     bindings |->
        << [direction |-> Some(Str_in), route |-> Some(<< >>),
            methods |-> Some(<< >>)],
           OutBinding >>]

Fn_k ==
    [name |-> <<"k">>, href |-> Some(Href(<<"k">>)),
     bindings |-> << OutBinding >>]

Fn_empty ==
    [name |-> << >>, href |-> Undefined,
     bindings |->
        << [direction |-> Some(<< >>), route |-> Undefined,
            methods |-> Some(<<Str_GET>>)] >>]

Fn_g_h ==
    [name |-> <<"g", "-", "h">>, href |-> Some(Href(<<"g", "-", "h">>)),
     bindings |->
        << [direction |-> Some(Str_in), route |-> Some(<<"{", "*", "p", "}">>),
            methods |-> Undefined] >>]

FunctionCatalog == {Fn_f, Fn_gh, Fn_f2, Fn_k, Fn_empty, Fn_g_h}

ApiIds == { <<"s", "v", "c", "/", "a", "p", "i", "s", "/", "A">> }

SynthInputs ==
    [apiId : ApiIds,
     funcAppTriggers : SeqsUpTo(TriggerNames, MaxTriggers),
     functions : SeqsUpTo(FunctionCatalog, MaxFunctions)]

(***************************************************************************)
(* The pure functions applied to their inputs.                             *)
(***************************************************************************)
ImportIdle ==
    /\ runs = << >>
    /\ hostKeys = << >>
    /\ gateway = [properties |-> << >>, backends |-> << >>,
                  operations |-> << >>, policies |-> << >>]
    /\ calls = << >>

InitParser ==
    /\ ImportIdle
    /\ pc = "call"
    /\ ret = << >>
    /\ \/ fn = "parseUrlTemplate" /\ arg \in Templates
       \/ fn = "parseParameter" /\ arg \in RawParameters

CallParseUrlTemplate ==
    /\ pc = "call"
    /\ fn = "parseUrlTemplate"
    /\ ret' = parseUrlTemplate(arg)
    /\ pc' = "return"
    /\ UNCHANGED <<fn, arg>>
    /\ UNCHANGED importVars

CallParseParameter ==
    /\ pc = "call"
    /\ fn = "parseParameter"
    /\ ret' = parseParameter(arg)
    /\ pc' = "return"
    /\ UNCHANGED <<fn, arg>>
    /\ UNCHANGED importVars

NextParser == CallParseUrlTemplate \/ CallParseParameter

SpecParser == InitParser /\ [][NextParser]_vars

InitNormalize ==
    /\ ImportIdle
    /\ pc = "call"
    /\ ret = << >>
    /\ fn = "displayNameToIdentifier"
    /\ arg \in {Undefined} \cup {Some(s) : s \in Names}

CallDisplayNameToIdentifier ==
    /\ pc = "call"
    /\ fn = "displayNameToIdentifier"
    /\ ret' = displayNameToIdentifier(arg)
    /\ pc' = "return"
    /\ UNCHANGED <<fn, arg>>
    /\ UNCHANGED importVars

NextNormalize == CallDisplayNameToIdentifier

SpecNormalize == InitNormalize /\ [][NextNormalize]_vars

InitSynth ==
    /\ ImportIdle
    /\ pc = "call"
    /\ ret = << >>
    /\ fn = "synthesize"
    /\ arg \in SynthInputs

CallSynthesize ==
    /\ pc = "call"
    /\ fn = "synthesize"
    /\ ret' = Synthesize(arg.apiId, arg.funcAppTriggers, arg.functions)
    /\ pc' = "return"
    /\ UNCHANGED <<fn, arg>>
    /\ UNCHANGED importVars

NextSynth == CallSynthesize

SpecSynth == InitSynth /\ [][NextSynth]_vars

(***************************************************************************)
(* Import orchestrator: FunctionAppAsAPI.importFunctionApp and the methods *)
(* it awaits.  A run's pc is "idle", the name of the collaborator call it  *)
(* awaits, "resolved" or "rejected".  The code between two awaits is one   *)
(* step: it ends by issuing the next call, which `calls` records.          *)
(***************************************************************************)
Str_apim == <<"a", "p", "i", "m", "-">>
Str_key == <<"-", "k", "e", "y">>
Str_https == <<"h", "t", "t", "p", "s", ":", "/", "/">>
Str_api == <<"/", "a", "p", "i">>
Str_functions == <<"/", "f", "u", "n", "c", "t", "i", "o", "n", "s", "/">>
Str_config == <<"c", "o", "n", "f", "i", "g">>
Str_undefined == <<"u", "n", "d", "e", "f", "i", "n", "e", "d">>
Str_Bearer == <<"B", "e", "a", "r", "e", "r", " ">>

\* A value read as a condition: undefined and "" are falsy.
Truthy(opt) == opt # Undefined /\ opt[1] # << >>

\* `${value}` of an optional string.
TemplateText(opt) == IF opt = Undefined THEN Str_undefined ELSE opt[1]

\* String.prototype.split(separator), the separator a text.
RECURSIVE SplitOnText(_, _)
SplitOnText(s, sep) ==
    LET hits == {k \in 0..(Len(s) - Len(sep)) :
                    SubSeq(s, k + 1, k + Len(sep)) = sep}
    IN  IF hits = {} THEN <<s>>
        ELSE LET k == CHOOSE h \in hits : \A j \in hits : h <= j
             IN  <<SubSeq(s, 1, k)>>
                    \o SplitOnText(SubSeq(s, k + Len(sep) + 1, Len(s)), sep)

\* getNameFromId and getApiAppName: the last segment of a resource id.
GetNameFromId(id) ==
    LET slashes == {i \in 1..Len(id) : id[i] = "/"}
    IN  IF slashes = {} THEN id
        ELSE SubSeq(id, (CHOOSE i \in slashes : \A j \in slashes : i >= j) + 1,
                    Len(id))

\* nonNullValue(value): its source is not at hand.  It either throws on an
\* undefined value or hands it on; a defined value is handed on.
nonNullValue(value) ==
    IF value = Undefined
    THEN {[threw |-> TRUE, value |-> Undefined],
          [threw |-> FALSE, value |-> Undefined]}
    ELSE {[threw |-> FALSE, value |-> value]}

\* A variant of ShortCircuits that lets an empty list through.
ShortCircuits_OnlyUndefined(funcAppTriggers) == funcAppTriggers = Undefined

\* Line 149: the short-circuit test.
ShortCircuits(funcAppTriggers) ==
    funcAppTriggers = Undefined \/ Len(funcAppTriggers[1]) = 0

Call(r, op, args) == [run |-> r, op |-> op, args |-> args]

\* The outcome of a step: the run's new locals and the call it issued.
Issue(r, run, op, args) ==
    [run |-> [run EXCEPT !.pc = op], issued |-> <<Call(r, op, args)>>]

Finish(run, outcome) == [run |-> [run EXCEPT !.pc = outcome], issued |-> << >>]

\* Line 342, the ternary of getFuncAppFunctions: a truthy nextLink asks
\* listFunctions, a falsy one listFunctionsNext(nonNullValue(nextLink)).
ListingOutcomes(r, run) ==
    IF Truthy(run.nextLink)
    THEN {Issue(r, [run EXCEPT !.listCalls = @ + 1], "listFunctions",
                <<run.funcAppId>>)}
    ELSE {IF nn.threw THEN Finish(run, "rejected")
          ELSE Issue(r, [run EXCEPT !.listCalls = @ + 1], "listFunctionsNext",
                     nn.value)
          : nn \in nonNullValue(run.nextLink)}

\* A variant of AfterSynthesis that asks for the token whatever the number
\* of operations.
AfterSynthesis_AlwaysProvisions(r, run, threw) ==
    IF threw THEN Finish(run, "rejected")
    ELSE Issue(r, run, "getFunctionsAdminToken", <<run.funcAppId>>)

\* Lines 154-192 once getFuncAppFunctions has returned: the synthesis, then
\* the admin token request if any operation was synthesized.
AfterSynthesis(r, run, threw) ==
    IF threw THEN Finish(run, "rejected")
    ELSE IF Len(run.operations) > 0
    THEN Issue(r, run, "getFunctionsAdminToken", <<run.funcAppId>>)
    ELSE Finish(run, "resolved")

Synthesized_In(run, syn) ==
    [run |-> [run EXCEPT !.operations = syn.operations,
                         !.functionConfigUrl = syn.functionConfigUrl],
     threw |-> syn.threw]

AfterListing(r, run) ==
    LET syn == Synthesized_In(
                  [run EXCEPT !.functionsOfApp = Some(run.functions)],
                  Synthesize(run.apiId, run.funcAppTriggers[1], run.functions))
    IN  AfterSynthesis(r, syn.run, syn.threw)

\* getServiceFuncKeyName, line 304.
ServiceFuncKeyName(apiId) == Str_apim \o GetNameFromId(apiId)

\* getFuncAppHostConfig, lines 265-272: the host config url, or a throw.
HostConfigUrl(functionConfigUrl) ==
    LET parts == SplitOnText(functionConfigUrl, Str_functions)
    IN  IF Len(parts) = 2
        THEN [threw |-> FALSE, value |-> parts[1] \o Str_functions \o Str_config]
        ELSE [threw |-> TRUE, value |-> << >>]

\* A variant of AppPrefix that takes an empty routePrefix for an unset one.
AppPrefix_EmptyIsUnset(hostConfig) ==
    IF \/ hostConfig = Undefined
       \/ hostConfig[1].http = Undefined
       \/ hostConfig[1].http[1].routePrefix = Undefined
       \/ hostConfig[1].http[1].routePrefix[1] = << >>
    THEN Str_api
    ELSE <<"/">> \o hostConfig[1].http[1].routePrefix[1]

\* Lines 199-203: the prefix a host config gives.
AppPrefix(hostConfig) ==
    IF \/ hostConfig = Undefined
       \/ hostConfig[1].http = Undefined
       \/ hostConfig[1].http[1].routePrefix = Undefined
    THEN Str_api
    ELSE IF hostConfig[1].http[1].routePrefix[1] = << >> THEN << >>
    ELSE <<"/">> \o hostConfig[1].http[1].routePrefix[1]

\* Lines 205-218: the app path, the property id, the security property (it
\* has no name field), and the createOrUpdate call.
PropertyCall(r, run, appPath, propertyId) ==
    IF propertyId.threw THEN Finish(run, "rejected")
    ELSE Issue(r, [run EXCEPT !.appPath = appPath,
                              !.propertyId = propertyId.value,
                              !.securityProperty =
                                  [name |-> Undefined,
                                   displayName |-> propertyId.value,
                                   value |-> run.funcKey, secret |-> TRUE]],
               "property.createOrUpdate", <<propertyId.value, run.funcKey>>)

BeginProperty(r, run, appPrefix) ==
    PropertyCall(r, run, Str_https \o run.runtimeHost \o appPrefix,
                 displayNameToIdentifier(Some(run.funcAppName \o Str_key)))

\* Lines 197-204 once the host key is known: the host config request if a
\* function config url was seen, the property otherwise.
AfterHostKey(r, run) ==
    IF Truthy(run.functionConfigUrl)
    THEN LET url == HostConfigUrl(run.functionConfigUrl[1])
         IN  IF url.threw THEN Finish(run, "rejected")
             ELSE Issue(r, run, "getHostConfig", <<url.value>>)
    ELSE BeginProperty(r, run, Str_api)

\* Lines 220-225 and setAppBackendEntity: the backend entity and its write.
BackendCall(r, run, code, id) ==
    IF id.threw THEN Finish(run, "rejected")
    ELSE Issue(r, [run EXCEPT !.backendEntity =
                                  [id |-> id.value, name |-> id.value,
                                   url |-> run.appPath, code |-> code]],
               "setBackendEntity", <<id.value, run.appPath, code>>)

BeginBackend(r, run) ==
    BackendCall(r, run,
        <<"{", "{">> \o TemplateText(run.securityProperty.name) \o <<"}", "}">>,
        displayNameToIdentifier(Some(GetNameFromId(run.funcAppId))))

\* Utils.amendOperationNameAndPath(operation, existingOperations), line 233:
\* its source is not at hand.  It throws, leaves the operation as it is, or
\* gives it another name and path.
amendOperationNameAndPath(operation, existingOperations) ==
    {[threw |-> TRUE, value |-> operation],
     [threw |-> FALSE, value |-> operation],
     [threw |-> FALSE,
      value |-> [operation EXCEPT !.id = @ \o <<"-", "1">>,
                                  !.name = @ \o <<"-", "1">>,
                                  !.urlTemplate = @ \o <<"-", "1">>]]}

\* A variant of RegisterOperation that does not await the registration
\* before it asks for the policy.
RegisterOperation_NotAwaited(r, run) ==
    [run |-> [run EXCEPT !.pc = "setPolicyXmlForOperationScope"],
     issued |->
        <<Call(r, "createOperation", <<run.operations[run.i + 1].id>>),
          Call(r, "setPolicyXmlForOperationScope",
               <<run.operations[run.i + 1].id, run.backendEntity.name>>)>>]

\* Line 236: the registration of operations[i], i 0-based.
RegisterOperation(r, run) ==
    Issue(r, run, "createOperation", <<run.operations[run.i + 1].id>>)

\* Lines 229-236: operations[i] is amended if the API has operations, then
\* registered.
BeginOperation(r, run) ==
    IF Len(run.existingOperations) > 0
    THEN {IF am.threw THEN Finish(run, "rejected")
          ELSE RegisterOperation(r,
                  [run EXCEPT !.operations[run.i + 1] = am.value])
          : am \in amendOperationNameAndPath(run.operations[run.i + 1],
                                             run.existingOperations)}
    ELSE {RegisterOperation(r, run)}

AwaitedCalls ==
    {"listFunctions", "listFunctionsNext", "getFunctionsAdminToken",
     "getFuncHostKeys", "createFuncHostKey", "getHostConfig",
     "property.createOrUpdate", "setBackendEntity", "getOperations",
     "createOperation", "setPolicyXmlForOperationScope"}

(***************************************************************************)
(* What the collaborators answer.                                          *)
(***************************************************************************)
FuncAppId == <<"r", "g", "/", "F", "n">>
FuncAppName == <<"F", "n">>
RuntimeHost == <<"h">>
Token == <<"t">>
KeyValues == << <<"k", "1">>, <<"k", "2">>, <<"k", "3">>, <<"k", "4">> >>

PageChoices ==
    { << [value |-> <<Fn_f, Fn_gh>>, nextLink |-> Undefined] >>,
      << [value |-> <<Fn_gh, Fn_f2>>, nextLink |-> Undefined] >>,
      << [value |-> <<Fn_k>>, nextLink |-> Undefined] >>,
      << [value |-> <<Fn_f>>, nextLink |-> Some(<<"L">>)],
         [value |-> <<Fn_gh>>, nextLink |-> Undefined] >> }

TriggerChoices ==
    { Undefined, Some(<< >>), Some(<< <<"f">> >>), Some(<< <<"g", " ", "h">> >>),
      Some(<< <<"f">>, <<"g", " ", "h">> >>), Some(<< <<"k">> >>),
      Some(<< <<"z">> >>), Some(<< <<"z">>, <<"f">> >>) }

HostKeyChoices ==
    { << >>,
      << [name |-> Str_apim \o <<"A">>, value |-> <<"k", "0">>] >>,
      << [name |-> <<"o">>, value |-> <<"k", "0">>] >> }

HostConfigs ==
    { Undefined,
      Some([http |-> Undefined]),
      Some([http |-> Some([routePrefix |-> Undefined])]),
      Some([http |-> Some([routePrefix |-> Some(<< >>)])]),
      Some([http |-> Some([routePrefix |-> Some(<<"v">>)])]) }

\* The gateway before the run: without an operation of the API, or with one.
GatewayChoices ==
    {[properties |-> << >>, backends |-> << >>, operations |-> ops,
      policies |-> << >>] :
        ops \in {<< >>, << (CHOOSE a \in ApiIds : TRUE) \o Str_operations
                              \o <<"o", "l", "d">> >>}}

\* The page a list call is answered with: the first page for listFunctions
\* and for a listFunctionsNext without a link, else the page after the one
\* that carries the link.
ServedPages(run, call) ==
    IF call.op = "listFunctions" \/ call.args = Undefined
    THEN {run.pages[1]}
    ELSE {run.pages[k + 1] : k \in {j \in 1..(Len(run.pages) - 1) :
                                        run.pages[j].nextLink = call.args}}

\* The runs of importFunctionApp under way.
RunIds == {1}

NewRun(triggers, pages) ==
    [pc |-> "idle", funcAppId |-> FuncAppId, funcAppName |-> FuncAppName,
     funcAppTriggers |-> triggers, apiId |-> CHOOSE a \in ApiIds : TRUE,
     runtimeHost |-> RuntimeHost, pages |-> pages, functions |-> << >>,
     nextLink |-> Undefined, listCalls |-> 0, operations |-> << >>,
     functionConfigUrl |-> Undefined, token |-> << >>, funcKey |-> << >>,
     appPath |-> << >>, propertyId |-> << >>,
     securityProperty |-> [name |-> Undefined, displayName |-> << >>,
                           value |-> << >>, secret |-> TRUE],
     backendEntity |-> [id |-> << >>, name |-> << >>, url |-> << >>,
                        code |-> << >>],
     existingOperations |-> << >>, i |-> 0,
     functionsOfApp |-> Undefined, keysRead |-> Undefined, hostConfig |-> << >>]

\* The last call a run issued: the one it awaits.
Awaited(r) ==
    calls[r][Len(calls[r])]

Apply(r, res) ==
    /\ runs' = [runs EXCEPT ![r] = res.run]
    /\ calls' = [calls EXCEPT ![r] = @ \o res.issued]

(***************************************************************************)
(* The steps of a run.                                                     *)
(***************************************************************************)
\* importFunctionApp is called: lines 148-153, up to the first list call.
ImportStart(r) ==
    /\ runs[r].pc = "idle"
    /\ IF ShortCircuits(runs[r].funcAppTriggers)
       THEN Apply(r, Finish(runs[r], "resolved"))
       ELSE \E res \in ListingOutcomes(r, runs[r]) : Apply(r, res)
    /\ UNCHANGED <<hostKeys, gateway>>
    /\ UNCHANGED pureVars

\* A variant of CallFails that takes back the operations and policies
\* written so far.
CallFails_RollsBack(r) ==
    /\ runs[r].pc \in AwaitedCalls
    /\ Apply(r, Finish(runs[r], "rejected"))
    /\ gateway' = [gateway EXCEPT !.operations = << >>, !.policies = << >>]
    /\ UNCHANGED hostKeys
    /\ UNCHANGED pureVars

\* The awaited call fails: the await throws and the run rejects.
CallFails(r) ==
    /\ runs[r].pc \in AwaitedCalls
    /\ Apply(r, Finish(runs[r], "rejected"))
    /\ UNCHANGED <<hostKeys, gateway>>
    /\ UNCHANGED pureVars

\* A list call returns a page: lines 343-346, then the next list call or the
\* rest of importFunctionApp up to its next await.
ListReturns(r) ==
    /\ runs[r].pc \in {"listFunctions", "listFunctionsNext"}
    /\ \E page \in ServedPages(runs[r], Awaited(r)) :
          LET run == [runs[r] EXCEPT !.nextLink = page.nextLink,
                                     !.functions = @ \o page.value]
          IN  IF run.nextLink # Undefined
              THEN /\ run.listCalls < MaxListCalls
                   /\ \E res \in ListingOutcomes(r, run) : Apply(r, res)
              ELSE Apply(r, AfterListing(r, run))
    /\ UNCHANGED <<hostKeys, gateway>>
    /\ UNCHANGED pureVars

\* getFunctionsAdminToken returns: lines 192-195 and 290.
TokenReturns(r) ==
    /\ runs[r].pc = "getFunctionsAdminToken"
    /\ LET run == [runs[r] EXCEPT !.token = Str_Bearer \o Token]
       IN  Apply(r, Issue(r, run, "getFuncHostKeys",
                          <<run.runtimeHost, run.token>>))
    /\ UNCHANGED <<hostKeys, gateway>>
    /\ UNCHANGED pureVars

\* A variant of HostKeysReturn that creates the key without looking for it.
HostKeysReturn_AlwaysCreates(r) ==
    /\ runs[r].pc = "getFuncHostKeys"
    /\ Apply(r, Issue(r, [runs[r] EXCEPT !.keysRead = Some(hostKeys)],
                      "createFuncHostKey",
                      <<runs[r].runtimeHost, ServiceFuncKeyName(runs[r].apiId),
                        runs[r].token>>))
    /\ UNCHANGED <<hostKeys, gateway>>
    /\ UNCHANGED pureVars

\* getFuncHostKeys returns the keys of the moment: lines 291-297.
HostKeysReturn(r) ==
    /\ runs[r].pc = "getFuncHostKeys"
    /\ LET funcAppKeyName == ServiceFuncKeyName(runs[r].apiId)
           named == {k \in 1..Len(hostKeys) : hostKeys[k].name = funcAppKeyName}
       IN  IF named # {}
           THEN LET existKey ==
                        hostKeys[CHOOSE k \in named : \A j \in named : k <= j]
                IN  Apply(r, AfterHostKey(r,
                        [runs[r] EXCEPT !.keysRead = Some(hostKeys),
                                        !.funcKey = existKey.value]))
           ELSE Apply(r, Issue(r, [runs[r] EXCEPT !.keysRead = Some(hostKeys)],
                        "createFuncHostKey",
                        <<runs[r].runtimeHost, funcAppKeyName, runs[r].token>>))
    /\ UNCHANGED <<hostKeys, gateway>>
    /\ UNCHANGED pureVars

\* The value the host generates for a key: a value no key of that name had.
GeneratedKeyValue(name) ==
    LET had == {v \in 1..Len(KeyValues) :
                   \E k \in 1..Len(hostKeys) :
                       hostKeys[k].name = name /\ hostKeys[k].value = KeyValues[v]}
    IN  IF had = {} THEN KeyValues[1]
        ELSE KeyValues[(CHOOSE v \in had : \A w \in had : v >= w) + 1]

\* createFuncHostKey returns the key the host made (a key of that name is
\* replaced): line 299.
CreateHostKeyReturns(r) ==
    /\ runs[r].pc = "createFuncHostKey"
    /\ LET newFuncKey == [name |-> Awaited(r).args[2],
                          value |-> GeneratedKeyValue(Awaited(r).args[2])]
       IN  /\ hostKeys' =
                  SelectSeq(hostKeys, LAMBDA k : k.name # newFuncKey.name)
                      \o <<newFuncKey>>
           /\ Apply(r, AfterHostKey(r,
                  [runs[r] EXCEPT !.funcKey = newFuncKey.value]))
    /\ UNCHANGED gateway
    /\ UNCHANGED pureVars

\* The host config request returns: lines 199-218.
HostConfigReturns(r) ==
    /\ runs[r].pc = "getHostConfig"
    /\ \E hostConfig \in HostConfigs :
          Apply(r, BeginProperty(r, [runs[r] EXCEPT !.hostConfig = <<hostConfig>>],
                                 AppPrefix(hostConfig)))
    /\ UNCHANGED <<hostKeys, gateway>>
    /\ UNCHANGED pureVars

\* property.createOrUpdate returns: lines 220-225, 246-259.
PropertyReturns(r) ==
    /\ runs[r].pc = "property.createOrUpdate"
    /\ gateway' = [gateway EXCEPT
          !.properties = Append(@, [id |-> runs[r].propertyId,
                                    value |-> runs[r].securityProperty.value])]
    /\ Apply(r, BeginBackend(r, runs[r]))
    /\ UNCHANGED hostKeys
    /\ UNCHANGED pureVars

\* setBackendEntity returns: lines 261 and 226.
BackendReturns(r) ==
    /\ runs[r].pc = "setBackendEntity"
    /\ gateway' = [gateway EXCEPT !.backends = Append(@, runs[r].backendEntity)]
    /\ Apply(r, Issue(r, runs[r], "getOperations", <<runs[r].apiId>>))
    /\ UNCHANGED hostKeys
    /\ UNCHANGED pureVars

\* getOperations returns the operations of the moment: lines 227-236.
GetOperationsReturns(r) ==
    /\ runs[r].pc = "getOperations"
    /\ \E res \in BeginOperation(r,
          [runs[r] EXCEPT !.existingOperations = gateway.operations, !.i = 0]) :
          Apply(r, res)
    /\ UNCHANGED <<hostKeys, gateway>>
    /\ UNCHANGED pureVars

\* createOperation returns: lines 238-240.
CreateOperationReturns(r) ==
    /\ runs[r].pc = "createOperation"
    /\ gateway' = [gateway EXCEPT
          !.operations = Append(@, runs[r].operations[runs[r].i + 1].id)]
    /\ Apply(r, Issue(r, runs[r], "setPolicyXmlForOperationScope",
          <<runs[r].operations[runs[r].i + 1].id, runs[r].backendEntity.name>>))
    /\ UNCHANGED hostKeys
    /\ UNCHANGED pureVars

\* setPolicyXmlForOperationScope returns: the loop of line 229 goes on to
\* the next operation, or the run resolves.
PolicyReturns(r) ==
    /\ runs[r].pc = "setPolicyXmlForOperationScope"
    /\ gateway' = [gateway EXCEPT
          !.policies = Append(@, [operation |-> Awaited(r).args[1],
                                  backend |-> Awaited(r).args[2]])]
    /\ LET run == [runs[r] EXCEPT !.i = @ + 1]
       IN  IF run.i < Len(run.operations)
           THEN \E res \in BeginOperation(r, run) : Apply(r, res)
           ELSE Apply(r, Finish(run, "resolved"))
    /\ UNCHANGED hostKeys
    /\ UNCHANGED pureVars

Init ==
    /\ fn = "importFunctionApp"
    /\ arg = << >>
    /\ ret = << >>
    /\ pc = "import"
    /\ runs \in {[r \in RunIds |-> NewRun(t, p)] :
                    t \in TriggerChoices, p \in PageChoices}
    /\ hostKeys \in HostKeyChoices
    /\ gateway \in GatewayChoices
    /\ calls = [r \in RunIds |-> << >>]

Next ==
    \/ \E r \in RunIds : ImportStart(r)
    \/ \E r \in RunIds : CallFails(r)
    \/ \E r \in RunIds : ListReturns(r)
    \/ \E r \in RunIds : TokenReturns(r)
    \/ \E r \in RunIds : HostKeysReturn(r)
    \/ \E r \in RunIds : CreateHostKeyReturns(r)
    \/ \E r \in RunIds : HostConfigReturns(r)
    \/ \E r \in RunIds : PropertyReturns(r)
    \/ \E r \in RunIds : BackendReturns(r)
    \/ \E r \in RunIds : GetOperationsReturns(r)
    \/ \E r \in RunIds : CreateOperationReturns(r)
    \/ \E r \in RunIds : PolicyReturns(r)

Spec == Init /\ [][Next]_vars

(***************************************************************************)
(* Two runs of importFunctionApp for the same function app, API and        *)
(* runtime host, their steps interleaved in any way: a run may also start  *)
(* after the other one has ended.                                          *)
(***************************************************************************)
TwoRunIds == {1, 2}

TwoRunPages ==
    { << [value |-> <<Fn_gh, Fn_g_h>>, nextLink |-> Undefined] >> }

TwoRunHostKeys ==
    { << >>, << [name |-> <<"o">>, value |-> <<"k", "0">>] >> }

InitTwoRuns ==
    /\ fn = "importFunctionApp"
    /\ arg = << >>
    /\ ret = << >>
    /\ pc = "import"
    /\ runs \in {[r \in TwoRunIds |-> NewRun(Some(<< <<"g", "-", "h">> >>), p)] :
                    p \in TwoRunPages}
    /\ hostKeys \in TwoRunHostKeys
    /\ gateway = [properties |-> << >>, backends |-> << >>,
                  operations |-> << >>, policies |-> << >>]
    /\ calls = [r \in TwoRunIds |-> << >>]

NextTwoRuns ==
    \/ \E r \in TwoRunIds : ImportStart(r)
    \/ \E r \in TwoRunIds : CallFails(r)
    \/ \E r \in TwoRunIds : ListReturns(r)
    \/ \E r \in TwoRunIds : TokenReturns(r)
    \/ \E r \in TwoRunIds : HostKeysReturn(r)
    \/ \E r \in TwoRunIds : CreateHostKeyReturns(r)
    \/ \E r \in TwoRunIds : HostConfigReturns(r)
    \/ \E r \in TwoRunIds : PropertyReturns(r)
    \/ \E r \in TwoRunIds : BackendReturns(r)
    \/ \E r \in TwoRunIds : GetOperationsReturns(r)
    \/ \E r \in TwoRunIds : CreateOperationReturns(r)
    \/ \E r \in TwoRunIds : PolicyReturns(r)

SpecTwoRuns == InitTwoRuns /\ [][NextTwoRuns]_vars

(***************************************************************************)
(* Properties of the route-template parser.                                *)
(***************************************************************************)
Parsed == pc = "return" /\ fn = "parseUrlTemplate"

\* The brace depth after the first n characters of t.
Depth(t, n) ==
    Cardinality({i \in 1..n : t[i] = "{"})
        - Cardinality({i \in 1..n : t[i] = "}"})

Balanced(t) ==
    /\ Depth(t, Len(t)) = 0
    /\ \A n \in 0..Len(t) : Depth(t, n) >= 0

\* x occurs in s as a contiguous piece.
Occurs(x, s) ==
    \E k \in 0..(Len(s) - Len(x)) : SubSeq(s, k + 1, k + Len(x)) = x

\* t with each parsed segment (the braces of spans[k] included) replaced by
\* {name} of its parameter, everything else kept; pos and the spans 0-based.
RECURSIVE Rebuild(_, _, _, _, _)
Rebuild(t, spans, params, pos, k) ==
    IF k > Len(spans)
    THEN SubSeq(t, pos + 1, Len(t))
    ELSE SubSeq(t, pos + 1, spans[k][1] - 1)
            \o <<"{">> \o params[k].name \o <<"}">>
            \o Rebuild(t, spans, params, spans[k][2] + 1, k + 1)

\* C2: cleanTemplate is the input with each parsed parameter segment
\* replaced by {name} and every other character kept exactly once, in order.
C2_CleanTemplateIsInputWithSegmentsReplaced ==
    Parsed => ret.urlTemplate = Rebuild(arg, ret.spans, ret.parameters, 0, 1)

Reparsed == parseUrlTemplate(ret.urlTemplate)

\* C3 as stated: for a template with balanced braces, parsing the clean
\* template yields no parameter.
C3_ReparseHasNoParameters ==
    (Parsed /\ Balanced(arg)) => Reparsed.parameters = << >>

\* C3, amended: for a template with balanced braces, every parameter that
\* parsing the clean template yields is bare: no type, required, no default
\* value (no constraint, default or optional syntax is left in the clean
\* template).
C3_ReparseHasOnlyBareParameters ==
    (Parsed /\ Balanced(arg)) =>
        /\ ~Reparsed.threw
        /\ \A k \in DOMAIN Reparsed.parameters :
              /\ Reparsed.parameters[k].type = ""
              /\ Reparsed.parameters[k].required
              /\ Reparsed.parameters[k].defaultValue = Undefined

C3_Witness ==
    /\ Parsed
    /\ Balanced(arg)
    /\ \E k \in DOMAIN ret.parameters :
          ret.parameters[k].type = "integer"
    /\ Reparsed.parameters # << >>
    /\ Reparsed.urlTemplate = ret.urlTemplate

\* An opening brace at 0-based o, met at depth 0, whose depth never returns
\* to 0.
UnterminatedAt(t, o) ==
    /\ t[o + 1] = "{"
    /\ Depth(t, o) = 0
    /\ \A n \in (o + 1)..Len(t) : Depth(t, n) >= 1

\* A closing brace at 0-based c, met at depth 0 or below.
StrayCloseAt(t, c) == t[c + 1] = "}" /\ Depth(t, c) <= 0

\* The 0-based index of the first "{" after c, Len(t) when there is none.
NextOpenAfter(t, c) ==
    LET opens == {j \in (c + 1)..(Len(t) - 1) : t[j + 1] = "{"}
    IN  IF opens = {} THEN Len(t)
        ELSE CHOOSE j \in opens : \A m \in opens : j <= m

\* No "}" of t brings the depth to 0: t holds no matched outermost pair.
NoCloseToZero(t) == \A n \in 1..Len(t) : ~(t[n] = "}" /\ Depth(t, n) = 0)

\* C4: parse never fails; an unterminated opening brace yields no parameter
\* and the text from it on ends the clean template unchanged; a closing
\* brace met at depth 0 lies in no parameter and is kept with the literal
\* text that follows it; a template without any matched outermost pair is
\* returned as it is, with no parameter.
C4_UnbalancedBracesPassThrough ==
    Parsed =>
        /\ ~ret.threw
        /\ \A o \in 0..(Len(arg) - 1) :
              UnterminatedAt(arg, o) =>
                  /\ \A k \in DOMAIN ret.spans : ret.spans[k][2] < o
                  /\ EndsWith(ret.urlTemplate, SubSeq(arg, o + 1, Len(arg)))
        /\ \A c \in 0..(Len(arg) - 1) :
              StrayCloseAt(arg, c) =>
                  /\ \A k \in DOMAIN ret.spans :
                        ~(ret.spans[k][1] - 1 <= c /\ c <= ret.spans[k][2])
                  /\ Occurs(SubSeq(arg, c + 1, NextOpenAfter(arg, c)),
                            ret.urlTemplate)
        /\ NoCloseToZero(arg) =>
              ret.urlTemplate = arg /\ ret.parameters = << >>

C4_Witness ==
    /\ Parsed
    /\ ret.parameters # << >>
    /\ \E o \in 1..(Len(arg) - 1) : UnterminatedAt(arg, o)

(***************************************************************************)
(* Properties of the parameter parser.                                     *)
(***************************************************************************)
ParameterParsed == pc = "return" /\ fn = "parseParameter"

\* The text of s from its first ":" on, up to the next ":", "=" or "?".
ConstraintToken(s) ==
    LET after == SubSeq(s, IndexOf(s, ":") + 2, Len(s))
        stops == {i \in 1..Len(after) : after[i] \in {":", "=", "?"}}
    IN  IF stops = {} THEN after
        ELSE SubSeq(after, 1, (CHOOSE i \in stops : \A j \in stops : i <= j) - 1)

\* C5: the type is "" when the text has no ":"-delimited constraint token,
\* and else what the constraint table gives for the token after the ":".
C5_TypeComesFromTheColonToken ==
    ParameterParsed =>
        /\ ~ret.threw
        /\ ret.value[1].type =
              IF IndexOf(arg, ":") = -1 THEN ""
              ELSE mapParameterType(ConstraintToken(arg))

DropOneQuestionMark(s) ==
    IF Len(s) > 0 /\ s[Len(s)] = "?" THEN SubSeq(s, 1, Len(s) - 1) ELSE s

AfterFirstEquals(s) == SubSeq(s, IndexOf(s, "=") + 2, Len(s))

UpToNextEquals(s) ==
    IF IndexOf(s, "=") = -1 THEN s ELSE SubSeq(s, 1, IndexOf(s, "="))

\* C6 as stated: defaultValue is set iff the text holds "=", and is the text
\* after the first "=" with one trailing "?" removed.
C6_DefaultIsTextAfterFirstEquals ==
    ParameterParsed =>
        ret.value[1].defaultValue =
            IF IndexOf(arg, "=") = -1 THEN Undefined
            ELSE Some(DropOneQuestionMark(AfterFirstEquals(arg)))

\* C6, as the code has it: defaultValue is set iff the text holds "=", and is the text
\* between the first "=" and the next "=" (the end of the text when there is
\* no second "="), with one trailing "?" removed.
C6_DefaultIsTextBetweenFirstTwoEquals ==
    ParameterParsed =>
        ret.value[1].defaultValue =
            IF IndexOf(arg, "=") = -1 THEN Undefined
            ELSE Some(DropOneQuestionMark(UpToNextEquals(AfterFirstEquals(arg))))

C6_Witness ==
    /\ ParameterParsed
    /\ arg = <<"a", ":", "b", "o", "o", "l", "=", "5", "?">>
    /\ ret.value[1].defaultValue = Some(<<"5">>)
    /\ ~ret.value[1].required
    /\ ret.value[1].type = "boolean"

(***************************************************************************)
(* Properties of the identifier normalizer.                                *)
(***************************************************************************)
Normalized == pc = "return" /\ fn = "displayNameToIdentifier"

\* C7: normalize("") and normalize(undefined) return "" and do not throw.
C7_EmptyAndUndefinedGiveEmpty ==
    (Normalized /\ arg \in {Undefined, Some(<< >>)}) =>
        ~ret.threw /\ ret.value = << >>

\* C8: for a string, the identifier has at most 80 characters, all of them
\* lowercase ASCII letters, digits or "-", no two "-" in a row, and no "-"
\* at either end.
C8_IdentifierShape ==
    (Normalized /\ arg # Undefined) =>
        /\ ~ret.threw
        /\ Len(ret.value) <= 80
        /\ \A i \in 1..Len(ret.value) :
              ret.value[i] \in AsciiLower \cup Digits \cup {"-"}
        /\ \A i \in 1..(Len(ret.value) - 1) :
              ~(ret.value[i] = "-" /\ ret.value[i + 1] = "-")
        /\ Len(ret.value) > 0 =>
              ret.value[1] # "-" /\ ret.value[Len(ret.value)] # "-"

C8_Witness ==
    /\ Normalized
    /\ arg # Undefined
    /\ Len(arg[1]) > 80
    /\ Len(ret.value) = 79
    /\ \E i \in 1..(Len(arg[1]) - 1) : arg[1][i] = " " /\ arg[1][i + 1] = "-"

AccentedChars == {accents[i] : i \in 1..Len(accents)} \ (AsciiUpper \cup AsciiLower)

\* C9: a character of the accent table comes out as the table's ASCII
\* equivalent at its place (in lower case, as the identifier is), and a
\* letter or digit outside the table comes out as itself in lower case.
C9_AccentsAreFolded ==
    ( /\ Normalized
      /\ arg # Undefined
      /\ Len(arg[1]) <= 80
      /\ \A i \in 1..Len(arg[1]) :
            arg[1][i] \in AccentedChars \cup AsciiUpper \cup AsciiLower \cup Digits
      /\ \E i \in 1..Len(arg[1]) : arg[1][i] \in AccentedChars ) =>
        /\ ~ret.threw
        /\ Len(ret.value) = Len(arg[1])
        /\ \A i \in 1..Len(arg[1]) :
              ret.value[i] = ToLowerChar(FoldAccent(arg[1][i]))

(***************************************************************************)
(* Properties of the operation synthesis.                                  *)
(***************************************************************************)
Synthesized == pc = "return" /\ fn = "synthesize"

\* What a claim says of one operation: the fields it names.
Claimed(op) ==
    [id |-> op.id, name |-> op.name, displayName |-> op.displayName,
     method |-> op.method, urlTemplate |-> op.urlTemplate,
     templateParameters |-> op.templateParameters]

ClaimedOperation(apiId, method, identifierText, displayName, routeText) ==
    LET name == displayNameToIdentifier(Some(identifierText)).value
        parsed == parseUrlTemplate(routeText)
    IN  [id |-> apiId \o Str_operations \o name,
         name |-> name,
         displayName |-> displayName,
         method |-> method,
         urlTemplate |-> parsed.urlTemplate,
         templateParameters |-> parsed.parameters]

\* The operations claimed for one trigger whose inbound binding is b.
ClaimedOfTrigger(apiId, trigger, b, displayName, routeText) ==
    IF b.methods # Undefined /\ b.methods[1] # << >>
    THEN [j \in 1..Len(b.methods[1]) |->
            ClaimedOperation(apiId, b.methods[1][j],
                b.methods[1][j] \o <<"-">> \o trigger, displayName, routeText)]
    ELSE <<ClaimedOperation(apiId, Str_POST, trigger, displayName, routeText)>>

\* The route text as C10 states it: the binding's route, or the trigger name
\* when the route is absent.
StatedRouteText(b, trigger) ==
    IF b.route = Undefined THEN trigger ELSE b.route[1]

\* The route text as amended: "/" followed by the binding's route, or by the
\* trigger name when the route is absent or empty.
AmendedRouteText(b, trigger) ==
    <<"/">> \o (IF b.route = Undefined \/ b.route[1] = << >>
                THEN trigger ELSE b.route[1])

\* The display name as amended: the trigger name, or the operation name when
\* the trigger name is empty.
AmendedDisplayName(b, trigger) ==
    IF trigger # << >> THEN trigger
    ELSE displayNameToIdentifier(Some(
            IF b.methods # Undefined /\ b.methods[1] # << >>
            THEN b.methods[1][1] \o <<"-">> \o trigger ELSE trigger)).value

\* The bindings of the function a trigger matches, if it matches one.
BindingsOf(trigger, functions) ==
    LET names == {i \in 1..Len(functions) : functions[i].name = trigger}
    IN  IF names = {} THEN Undefined
        ELSE Some(functions[CHOOSE i \in names : \A j \in names : i <= j].bindings)

InboundOf(bindings) ==
    bindings[CHOOSE i \in 1..Len(bindings) :
                /\ IsInbound(bindings[i])
                /\ \A j \in 1..(i - 1) : ~IsInbound(bindings[j])]

\* Every requested trigger that matches a function has an inbound binding.
InboundEverywhere(triggers, functions) ==
    \A k \in 1..Len(triggers) :
        BindingsOf(triggers[k], functions) # Undefined =>
            \E i \in 1..Len(BindingsOf(triggers[k], functions)[1]) :
                IsInbound(BindingsOf(triggers[k], functions)[1][i])

\* The operations claimed for the triggers from the k-th on, in order; an
\* unmatched trigger contributes none.
RECURSIVE StatedFrom(_, _, _, _)
StatedFrom(apiId, triggers, functions, k) ==
    IF k > Len(triggers) THEN << >>
    ELSE LET t == triggers[k]
             bs == BindingsOf(t, functions)
         IN  (IF bs = Undefined THEN << >>
              ELSE ClaimedOfTrigger(apiId, t, InboundOf(bs[1]), t,
                       StatedRouteText(InboundOf(bs[1]), t)))
             \o StatedFrom(apiId, triggers, functions, k + 1)

RECURSIVE AmendedFrom(_, _, _, _)
AmendedFrom(apiId, triggers, functions, k) ==
    IF k > Len(triggers) THEN << >>
    ELSE LET t == triggers[k]
             bs == BindingsOf(t, functions)
         IN  (IF bs = Undefined THEN << >>
              ELSE ClaimedOfTrigger(apiId, t, InboundOf(bs[1]),
                       AmendedDisplayName(InboundOf(bs[1]), t),
                       AmendedRouteText(InboundOf(bs[1]), t)))
             \o AmendedFrom(apiId, triggers, functions, k + 1)

SynthesizedOperations == [j \in 1..Len(ret.operations) |-> Claimed(ret.operations[j])]

CallsOf(r) == {k \in 1..Len(calls[r]) : calls[r][k].run = r}

\* C1: a run whose triggerNames is undefined or empty resolves, never
\* rejects, and issues no collaborator call at all.
C1_NoTriggersNoCalls ==
    \A r \in DOMAIN runs :
        (runs[r].funcAppTriggers = Undefined
            \/ runs[r].funcAppTriggers = Some(<< >>)) =>
            /\ runs[r].pc \in {"idle", "resolved"}
            /\ CallsOf(r) = {}
            /\ hostKeys \in HostKeyChoices
            /\ gateway \in GatewayChoices

C1_Witness ==
    \E r \in DOMAIN runs :
        /\ runs[r].funcAppTriggers = Some(<< >>)
        /\ runs[r].pc = "resolved"
        /\ calls[r] = << >>

IsPrefix(a, b) == Len(a) <= Len(b) /\ SubSeq(b, 1, Len(a)) = a

OpsOf(r) == {calls[r][k].op : k \in 1..Len(calls[r])}

\* The function config url of run r does not split into two parts.
MalformedConfigUrl(r) ==
    /\ Truthy(runs[r].functionConfigUrl)
    /\ Len(SplitOnText(runs[r].functionConfigUrl[1], Str_functions)) # 2

\* A step keeps every object of the gateway and every host key.
NothingTakenBack ==
    /\ IsPrefix(gateway.properties, gateway'.properties)
    /\ IsPrefix(gateway.backends, gateway'.backends)
    /\ IsPrefix(gateway.operations, gateway'.operations)
    /\ IsPrefix(gateway.policies, gateway'.policies)
    /\ \A k \in 1..Len(hostKeys) :
          \E j \in 1..Len(hostKeys') : hostKeys'[j].name = hostKeys[k].name

\* C11: a failing collaborator call, or a function config url that does not
\* split into exactly two parts on "/functions/", rejects the run; a rejected
\* run issues no further call; no step is a delete or takes back an object
\* written before.
C11_FirstFailureAborts ==
    /\ [][\A r \in DOMAIN runs :
            /\ CallFails(r) =>
                  /\ runs'[r].pc = "rejected"
                  /\ calls'[r] = calls[r]
                  /\ gateway' = gateway
            /\ runs[r].pc = "rejected" =>
                  runs'[r].pc = "rejected" /\ calls'[r] = calls[r]
            /\ NothingTakenBack]_vars
    /\ [](\A r \in DOMAIN runs :
            /\ OpsOf(r) \subseteq AwaitedCalls
            /\ (MalformedConfigUrl(r) /\ runs[r].funcKey # << >>) =>
                  /\ runs[r].pc = "rejected"
                  /\ OpsOf(r) \cap {"getHostConfig", "property.createOrUpdate",
                                    "setBackendEntity", "getOperations",
                                    "createOperation",
                                    "setPolicyXmlForOperationScope"} = {})

\* A run that failed at the registration of its second operation: the
\* property, the backend, the first operation and its policy are in place.
C11_Witness ==
    \E r \in DOMAIN runs :
        /\ runs[r].pc = "rejected"
        /\ Len(runs[r].operations) = 2
        /\ runs[r].i = 1
        /\ Awaited(r).op = "createOperation"
        /\ gateway.properties # << >>
        /\ gateway.backends # << >>
        /\ \E k \in 1..Len(gateway.operations) :
              gateway.operations[k] = runs[r].operations[1].id
        /\ gateway.policies # << >>

ListCalls == {"listFunctions", "listFunctionsNext"}

\* C12: the first page is asked with the initial list call, each following
\* page with the link of the page before it, and the function list is the
\* concatenation of all pages in order.
C12_PagesFollowedInOrder ==
    \A r \in DOMAIN runs :
        /\ \A k \in 1..Len(calls[r]) :
              calls[r][k].op \in ListCalls =>
                  IF k = 1 THEN calls[r][k].op = "listFunctions"
                  ELSE /\ calls[r][k].op = "listFunctionsNext"
                       /\ k - 1 <= Len(runs[r].pages)
                       /\ calls[r][k].args = runs[r].pages[k - 1].nextLink
        /\ runs[r].functionsOfApp # Undefined =>
              runs[r].functionsOfApp[1] =
                  Concat([k \in 1..Len(runs[r].pages) |-> runs[r].pages[k].value])

\* The places of the calls named op among the calls of run r.
PlacesOf(r, op) == {k \in 1..Len(calls[r]) : calls[r][k].op = op}

\* The keys named for the API among the keys run r read.
NamedKeysRead(r) ==
    SelectSeq(runs[r].keysRead[1],
              LAMBDA key : key.name = ServiceFuncKeyName(runs[r].apiId))

\* What run r did with the keys it read.
KeyAcquiredAsRead(r) ==
    runs[r].keysRead # Undefined =>
        /\ PlacesOf(r, "getFuncHostKeys") # {}
        /\ IF NamedKeysRead(r) # << >>
           THEN /\ PlacesOf(r, "createFuncHostKey") = {}
                /\ runs[r].funcKey = NamedKeysRead(r)[1].value
           ELSE /\ Cardinality(PlacesOf(r, "createFuncHostKey")) = 1
                /\ \A c \in PlacesOf(r, "createFuncHostKey") :
                      /\ c - 1 \in PlacesOf(r, "getFuncHostKeys")
                      /\ calls[r][c].args[2] = ServiceFuncKeyName(runs[r].apiId)

\* C13: a run reads the host keys first; with a key named for the API among
\* them it takes that key's value and does not create a key; without one it
\* creates a key exactly once and takes the new key's value; a run started
\* after another run has resolved creates no key.
C13_KeyAcquisitionIsIdempotent ==
    /\ [](\A r \in TwoRunIds :
            /\ runs[r].keysRead = Undefined =>
                  PlacesOf(r, "createFuncHostKey") = {}
            /\ KeyAcquiredAsRead(r))
    /\ [][\A r \in TwoRunIds :
            (runs[r].pc = "createFuncHostKey"
                /\ runs'[r].pc \notin {"createFuncHostKey", "rejected"}) =>
                \E k \in 1..Len(hostKeys') :
                    /\ hostKeys'[k].name = ServiceFuncKeyName(runs[r].apiId)
                    /\ hostKeys'[k].value = runs'[r].funcKey]_vars
    /\ \A r \in TwoRunIds : \A q \in TwoRunIds :
          []((runs[r].pc = "resolved" /\ runs[q].pc = "idle") =>
                [](PlacesOf(q, "createFuncHostKey") = {}))

\* One run created the key and resolved; the other one read that key, took
\* its value, created none and resolved.
C13_Witness ==
    \E r \in TwoRunIds : \E q \in TwoRunIds :
        /\ runs[r].pc = "resolved" /\ runs[q].pc = "resolved"
        /\ PlacesOf(r, "createFuncHostKey") # {}
        /\ PlacesOf(q, "createFuncHostKey") = {}
        /\ runs[q].keysRead # Undefined
        /\ NamedKeysRead(q) # << >>
        /\ runs[q].funcKey = runs[r].funcKey
        /\ runs[q].funcKey = KeyValues[1]

\* C14: the credential of every backend written names the secret property
\* registered under normalize("{funcAppName}-key"), which holds the host key.
C14_CredentialNamesTheProperty ==
    \A b \in 1..Len(gateway.backends) :
        \E q \in 1..Len(gateway.properties) :
            /\ gateway.properties[q].id =
                  displayNameToIdentifier(Some(FuncAppName \o Str_key)).value
            /\ gateway.properties[q].value \in
                  {runs[r].funcKey : r \in DOMAIN runs}
            /\ gateway.backends[b].code =
                  <<"{", "{">> \o gateway.properties[q].id \o <<"}", "}">>

\* The routePrefix run r was given: none when no host config was fetched,
\* when the answer held no config, no http section or no routePrefix.
RoutePrefixSeen(r) ==
    IF runs[r].hostConfig = << >> THEN Undefined
    ELSE IF runs[r].hostConfig[1] = Undefined THEN Undefined
    ELSE IF runs[r].hostConfig[1][1].http = Undefined THEN Undefined
    ELSE runs[r].hostConfig[1][1].http[1].routePrefix

StatedBackendUrl(r) ==
    Str_https \o runs[r].runtimeHost \o
        (IF RoutePrefixSeen(r) = Undefined THEN <<"/", "a", "p", "i">>
         ELSE IF RoutePrefixSeen(r)[1] = << >> THEN << >>
         ELSE <<"/">> \o RoutePrefixSeen(r)[1])

\* C15: the backend url of a run is https://{runtimeHost}{prefix}, the prefix
\* "/api" without a routePrefix, "" for an empty routePrefix and
\* "/{routePrefix}" otherwise.
C15_BackendUrlHasThePrefix ==
    \A r \in DOMAIN runs :
        /\ PlacesOf(r, "setBackendEntity") # {} =>
              /\ runs[r].backendEntity.url = StatedBackendUrl(r)
              /\ \A c \in PlacesOf(r, "setBackendEntity") :
                    calls[r][c].args[2] = StatedBackendUrl(r)
        /\ \A b \in 1..Len(gateway.backends) :
              gateway.backends[b].url = StatedBackendUrl(r)

\* A backend written for a host whose routePrefix is the empty string.
C15_Witness ==
    \E r \in DOMAIN runs :
        /\ gateway.backends # << >>
        /\ RoutePrefixSeen(r) = Some(<< >>)
        /\ gateway.backends[1].url = Str_https \o runs[r].runtimeHost

\* The place of a call in the order of the steps.
StepRank(op) ==
    CASE op \in ListCalls -> 1
      [] op = "getFunctionsAdminToken" -> 2
      [] op = "getFuncHostKeys" -> 3
      [] op = "createFuncHostKey" -> 4
      [] op = "getHostConfig" -> 5
      [] op = "property.createOrUpdate" -> 6
      [] op = "setBackendEntity" -> 7
      [] op = "getOperations" -> 8
      [] op \in {"createOperation", "setPolicyXmlForOperationScope"} -> 9

RepeatedSteps == {1, 9}

\* The calls of run r for its operations: registration and policy of the
\* first operation, then of the second one, and so on.
OperationCallsAlternate(r) ==
    LET places == PlacesOf(r, "createOperation")
                    \cup PlacesOf(r, "setPolicyXmlForOperationScope")
    IN  \A k \in places :
            LET m == Cardinality({j \in places : j < k})
            IN  /\ (m \div 2) + 1 <= Len(runs[r].operations)
                /\ calls[r][k].args[1] = runs[r].operations[(m \div 2) + 1].id
                /\ calls[r][k].op =
                      IF m % 2 = 0 THEN "createOperation"
                      ELSE "setPolicyXmlForOperationScope"

\* C16: a run has at most one call outstanding, each step issues at most one
\* call, the calls keep the order listing, token, key read, key creation,
\* host config, property, backend, and then registration and policy of each
\* operation in list order.
C16_CallsAreSequential ==
    /\ [](\A r \in DOMAIN runs :
            /\ \A j \in 1..Len(calls[r]) : \A k \in 1..Len(calls[r]) :
                  j < k =>
                      \/ StepRank(calls[r][j].op) < StepRank(calls[r][k].op)
                      \/ /\ StepRank(calls[r][j].op) = StepRank(calls[r][k].op)
                         /\ StepRank(calls[r][j].op) \in RepeatedSteps
            /\ OperationCallsAlternate(r)
            /\ runs[r].pc \in AwaitedCalls =>
                  calls[r] # << >> /\ Awaited(r).op = runs[r].pc)
    /\ [][\A r \in DOMAIN runs :
            /\ IsPrefix(calls[r], calls'[r])
            /\ Len(calls'[r]) <= Len(calls[r]) + 1
            /\ Len(calls'[r]) > Len(calls[r]) =>
                  runs[r].pc \in AwaitedCalls \cup {"idle"}]_vars

\* A run that resolved after every step: two list calls apart, each step
\* once, and two operations registered.
C16_Witness ==
    \E r \in DOMAIN runs :
        /\ runs[r].pc = "resolved"
        /\ Len(runs[r].operations) = 2
        /\ {StepRank(calls[r][k].op) : k \in 1..Len(calls[r])} = 1..9
        /\ Len(calls[r]) = 12
        /\ calls[r][12].args[1] = runs[r].operations[2].id

\* The requested triggers of run r that name a listed function.
ListedTriggers(r) ==
    SelectSeq(runs[r].funcAppTriggers[1],
              LAMBDA t : \E k \in 1..Len(runs[r].functionsOfApp[1]) :
                            runs[r].functionsOfApp[1][k].name = t)

\* C17: once the listing has succeeded, a run none of whose triggers names a
\* listed function resolves with no call but the list calls; triggers that
\* name no listed function add nothing and raise no error, the operations
\* being those of the triggers that do.
C17_NoOperationNoProvisioning ==
    \A r \in DOMAIN runs :
        runs[r].functionsOfApp # Undefined =>
            /\ ListedTriggers(r) = << >> =>
                  /\ runs[r].pc = "resolved"
                  /\ runs[r].operations = << >>
                  /\ OpsOf(r) \subseteq ListCalls
            /\ runs[r].existingOperations = << >> =>
                  runs[r].operations =
                      Synthesize(runs[r].apiId, ListedTriggers(r),
                                 runs[r].functionsOfApp[1]).operations

\* A run for a trigger that no listed function has: resolved after the list
\* call alone.
C17_Witness ==
    \E r \in DOMAIN runs :
        /\ runs[r].funcAppTriggers = Some(<< <<"z">> >>)
        /\ runs[r].functionsOfApp # Undefined
        /\ runs[r].functionsOfApp[1] # << >>
        /\ runs[r].pc = "resolved"
        /\ Len(calls[r]) = 1

Distinct(seq) ==
    \A j \in 1..Len(seq) : \A k \in 1..Len(seq) : j # k => seq[j] # seq[k]

\* C18: for pairwise distinct trigger names and methods lists with pairwise
\* distinct entries, the synthesized operations have pairwise distinct ids.
C18_OperationIdsAreDistinct ==
    (/\ Synthesized
     /\ Distinct(arg.funcAppTriggers)
     /\ \A f \in 1..Len(arg.functions) :
           \A b \in 1..Len(arg.functions[f].bindings) :
               arg.functions[f].bindings[b].methods # Undefined =>
                   Distinct(arg.functions[f].bindings[b].methods[1])) =>
        Distinct([k \in 1..Len(ret.operations) |-> ret.operations[k].id])

\* C19: two runs for the same host and key name, no key of that name at the
\* start: createFuncHostKey is called at most once in all, and the
\* properties the runs write hold the same key value.
C19_KeyCreatedOnceForBothRuns ==
    /\ Cardinality(UNION {{<<r, k>> : k \in PlacesOf(r, "createFuncHostKey")} :
                              r \in TwoRunIds}) <= 1
    /\ \A p \in 1..Len(gateway.properties) :
          \A q \in 1..Len(gateway.properties) :
              gateway.properties[p].value = gateway.properties[q].value

=============================================================================
